---- MODULE Spec2Model ----
(***************************************************************************)
(* A model of the OCM exporter (src/ocm_export_pro.py).                    *)
(*                                                                         *)
(* Strings whose characters matter (names, paths, media types, ids of the  *)
(* file-name computation) are sequences of one-character strings.  An      *)
(* optional value is a sequence of length 0 (absent / None) or 1.          *)
(*                                                                         *)
(* Three specifications share the module:                                  *)
(*   SpecFolders  build_folder_paths, one call of it on a drawn folder set *)
(*   SpecNames    the destination file name of two drawn assets            *)
(*   Spec         a run of main(): pagination, checkpoint, worker pool,    *)
(*                metadata log, with process kills and restarts            *)
(***************************************************************************)
EXTENDS Integers, Sequences, FiniteSets, TLC

VARIABLES
    \* ---- build_folder_paths (SpecFolders) ----
    folders,        \* the argument: a sequence of folder records
    cache,          \* resolve_path's memo: folder id -> optional path
    folder_paths,   \* the result under construction: folder id -> optional path
    stack,          \* the active calls of resolve_path, innermost last (the fid of each)
    retval,         \* the value the call that just returned handed to its caller
    remaining,      \* the keys of by_id the loop of line 215 still has to visit
    fpc,            \* "init", "loop", "done" or "RecursionError"
    cacheHits       \* history: calls answered from the memo

fvars == <<folders, cache, folder_paths, stack, retval, remaining, fpc, cacheHits>>

VARIABLES
    \* ---- the destination file name (SpecNames) ----
    assets,         \* two asset records of the catalog
    filenames       \* the file name download_asset_binary computed for each, if it has

nvars == <<assets, filenames>>

VARIABLES
    \* ---- a run of main() (Spec) ----
    \* what the run is given
    CONFIG,         \* config.yaml: page_limit, max_retries, max_workers
    catalog,        \* the remote repository: the sequence of items the list endpoint pages
    \* the export directory: it outlives the process
    state_json,     \* meta/state.json
    state_tmp,      \* meta/state.json.tmp
    files,          \* files/: path -> optional number of chunks the file holds
    assets_jsonl,   \* meta/assets.jsonl: the pieces written, in order
    folders_json,   \* meta/folders.json: "absent", "partial" or "whole"
    rbac_json,      \* meta/rbac.json: "absent", "partial" or "whole"
    \* the process
    pc,             \* where the main thread is
    offset,         \* the local offset of export_folders / export_assets
    attempt,        \* get_json's loop variable
    idx,            \* the position of `for item in items` (line 323)
    all_folders,    \* export_folders' list, as the set of its ids
    futures,        \* the tasks submitted to the executor, in order of submission
    meta_lock,      \* 0, or the index in futures of the task holding the lock
    \* history
    error,          \* what ended the run: "none", or the call that raised
    start_offset,   \* the offset load_state gave this run
    log_start,      \* the length of assets.jsonl when the process started
    pages_enumerated, \* non-empty pages this run has classified to their last item
    materialized,   \* assets some transfer has renamed into place with a whole payload
    crashes,        \* times the process was killed
    reruns,         \* times the exporter was started again after a run had ended
    completed,      \* files/ as a completed run before this one left it, if one did
    lost,           \* assets whose task a kill ended after their page's checkpoint was saved
    at_error        \* the tasks not yet ended when get_json raised in export_assets

cvars == <<CONFIG, catalog>>
dvars == <<state_json, state_tmp, files, assets_jsonl, folders_json, rbac_json>>
pvars == <<pc, offset, attempt, idx, all_folders, futures, meta_lock>>
hvars == <<error, start_offset, log_start, pages_enumerated, materialized, crashes, reruns,
          completed, lost, at_error>>
evars == <<cvars, dvars, pvars, hvars>>

vars == <<fvars, nvars, evars>>

-----------------------------------------------------------------------------
(* Characters and strings *)

Unnamed == <<"u", "n", "n", "a", "m", "e", "d">>

\* sanitize_filename, line 112
bad_chars == {"/", "\\", ":", "*", "?", "\"", "<", ">", "|"}

\* the characters str.strip() removes that the drawn names can hold
Whitespace == {" "}

RECURSIVE ReplaceBad(_)
ReplaceBad(s) ==
    IF Len(s) = 0 THEN <<>>
    ELSE <<IF Head(s) \in bad_chars THEN "_" ELSE Head(s)>> \o ReplaceBad(Tail(s))

RECURSIVE LStrip(_)
LStrip(s) == IF Len(s) > 0 /\ Head(s) \in Whitespace THEN LStrip(Tail(s)) ELSE s

RECURSIVE RStrip(_)
RStrip(s) ==
    IF Len(s) > 0 /\ s[Len(s)] \in Whitespace THEN RStrip(SubSeq(s, 1, Len(s) - 1)) ELSE s

Strip(s) == RStrip(LStrip(s))

\* a plausible slip: the characters are replaced but the fallback for an empty
\* result is forgotten
sanitize_filename_NoFallback(name) == Strip(ReplaceBad(name))

sanitize_filename(name) ==
    LET r == Strip(ReplaceBad(name)) IN IF Len(r) = 0 THEN Unnamed ELSE r

\* os.path.join(a, b) of two components on a POSIX system
OsPathJoin(a, b) ==
    IF Len(b) > 0 /\ Head(b) = "/" THEN b
    ELSE IF Len(a) = 0 \/ a[Len(a)] = "/" THEN a \o b
    ELSE a \o <<"/">> \o b

-----------------------------------------------------------------------------
(* A run of main(): configuration, catalog and export directory *)

PAGE_LIMIT == CONFIG.page_limit
MAX_RETRIES == CONFIG.max_retries
MAX_WORKERS == CONFIG.max_workers

\* how often the process is killed, and how often the exporter is started again
\* after a run has ended
MaxCrashes == 1
MaxReruns == 1

TheConfig == [page_limit |-> 2, max_retries |-> 2, max_workers |-> 2]

\* two full pages and the empty one; chunks is the length of the binary in chunks
TheCatalog ==
    << [id |-> "a1", type |-> "file", chunks |-> 2],
       [id |-> "F1", type |-> "folder", chunks |-> 0],
       [id |-> "a2", type |-> "file", chunks |-> 1],
       [id |-> "a3", type |-> "file", chunks |-> 1] >>

ItemIds == {TheCatalog[i].id : i \in 1..Len(TheCatalog)}

Item(id) == catalog[CHOOSE i \in 1..Len(catalog) : catalog[i].id = id]

Payload(asset_id) == Item(asset_id).chunks

\* the place of an item in the listing: the offsets below it precede it
Position(id) == CHOOSE i \in 1..Len(catalog) : catalog[i].id = id

Min(a, b) == IF a < b THEN a ELSE b

\* the list endpoint: the items at offset, limit of them at most
Page(off) == SubSeq(catalog, off + 1, Min(off + PAGE_LIMIT, Len(catalog)))

\* line 259: the destination of an asset (its directory and file name are fixed by
\* the asset; distinct ids of the catalog have distinct destinations)
local_path(asset_id) == <<asset_id, "">>

\* a plausible slip: the transfer writes straight to the destination
tmp_path_InPlace(asset_id) == local_path(asset_id)

\* line 276: tmp_path = local_path + ".part"
tmp_path(asset_id) == <<asset_id, ".part">>

Paths == {<<a, e>> : a \in ItemIds, e \in {"", ".part"}}

NoFile == <<>>

NoCheckpoint == [exists |-> FALSE, whole |-> FALSE, last_offset |-> 0]

\* os.replace(src, dst)
Replace(fs, src, dst) ==
    IF src = dst THEN fs ELSE [fs EXCEPT ![dst] = fs[src], ![src] = NoFile]

\* line 55: the checkpoint file
STATE_FILE == "state.json"

\* a save_state that writes the checkpoint file itself
save_state_tmp_InPlace == STATE_FILE

\* line 91: tmp = STATE_FILE + ".tmp"
save_state_tmp == "state.json.tmp"

\* open(path, "w") and json.dump on one of the two checkpoint paths
WriteState(path, content) ==
    IF path = STATE_FILE
    THEN /\ state_json' = content
         /\ UNCHANGED state_tmp
    ELSE /\ state_tmp' = content
         /\ UNCHANGED state_json

\* a run that ignores the saved checkpoint
load_state_FromZero == NoCheckpoint.last_offset

\* a run that goes back over the last page whose checkpoint was saved
load_state_PageBack ==
    IF state_json.exists THEN state_json.last_offset - PAGE_LIMIT ELSE 0

\* load_state, lines 83-87, on a checkpoint file that parses
load_state == IF state_json.exists THEN state_json.last_offset ELSE 0

\* a skip test that never skips
SkipTest_Never(asset_id) == FALSE

\* line 262: os.path.exists(local_path) and os.path.getsize(local_path) > 0
SkipTest(asset_id) ==
    /\ Len(files[local_path(asset_id)]) = 1
    /\ files[local_path(asset_id)][1] > 0

\* a cursor that counts pages instead of items
NextOffset_Pages(off) == off + 1

\* line 332: offset += PAGE_LIMIT
NextOffset(off) == off + PAGE_LIMIT

\* a classification that lets folders through
Submits_All(item) == TRUE

\* a classification with the test the other way round
Submits_FoldersOnly(item) == item.type = "folder"

\* line 325: folders are skipped, everything else is submitted
Submits(item) == item.type # "folder"

\* an exhausted fetch taken for the end of the catalog
Raised_AsEmptyPage(p) == IF p = "assets_get" THEN "join" ELSE "aborted"

\* an error that ends the run without waiting for the pool
Raised_NoWait(p) == "aborted"

\* line 108: get_json raises; inside export_assets the error first leaves the
\* `with ThreadPoolExecutor` block, whose exit waits for the submitted tasks
Raised(p) == IF p = "assets_get" THEN "unwind" ELSE "aborted"

\* a download that raises when it has used its attempts
GiveUpOutcome_Raise == "raised"

\* line 288: the task logs the failure and returns
GiveUpOutcome == "gaveup"

\* an append that does not take the lock
LockFree_Unguarded == TRUE

\* line 228: `with meta_lock` enters when no thread holds the lock
LockFree == meta_lock = 0

NewTask(asset_id) ==
    [asset |-> asset_id, pc |-> "queued", attempt |-> 0, outcome |-> "none",
     existed |-> FALSE, seen |-> NoFile, reqs |-> 0, appends |-> 0]

Tasks == 1..Len(futures)

Running == {t \in Tasks : futures[t].pc \notin {"queued", "done"}}

\* a join that does not wait
AllDone_NoWait == TRUE

AllDone == \A t \in Tasks : futures[t].pc = "done"

\* the variables of a process that has just started
Fresh ==
    /\ pc' = "main"
    /\ offset' = 0
    /\ attempt' = 1
    /\ idx' = 1
    /\ all_folders' = {}
    /\ futures' = <<>>
    /\ meta_lock' = 0
    /\ error' = "none"
    /\ start_offset' = 0
    /\ log_start' = Len(assets_jsonl)
    /\ at_error' = {}
    /\ pages_enumerated' = 0

ExportIdle ==
    /\ CONFIG = TheConfig
    /\ catalog = <<>>
    /\ state_json = NoCheckpoint
    /\ state_tmp = NoCheckpoint
    /\ files = [p \in Paths |-> NoFile]
    /\ assets_jsonl = <<>>
    /\ folders_json = "absent"
    /\ rbac_json = "absent"
    /\ pc = "idle"
    /\ offset = 0
    /\ attempt = 1
    /\ idx = 1
    /\ all_folders = {}
    /\ futures = <<>>
    /\ meta_lock = 0
    /\ error = "none"
    /\ start_offset = 0
    /\ log_start = 0
    /\ pages_enumerated = 0
    /\ materialized = {}
    /\ crashes = 0
    /\ reruns = 0
    /\ completed = <<>>
    /\ lost = {}
    /\ at_error = {}

\* what the main thread leaves alone unless it says otherwise
OutsideExport == <<fvars, nvars, cvars, crashes, reruns, lost>>

-----------------------------------------------------------------------------
(* The main thread *)

\* main, lines 365-373: ensure_dirs, then folders.json is reused or exported
MainStart ==
    /\ pc = "main"
    /\ IF folders_json = "whole"
       THEN /\ pc' = "build"
            /\ UNCHANGED error
       ELSE IF folders_json = "partial"
       THEN /\ pc' = "aborted"
            /\ error' = "folders_json"
       ELSE /\ pc' = "folders_get"
            /\ UNCHANGED error
    /\ UNCHANGED <<offset, attempt, idx, all_folders, futures, meta_lock>>
    /\ UNCHANGED <<dvars, start_offset, log_start, pages_enumerated, materialized>>
    /\ UNCHANGED <<OutsideExport, completed, at_error>>

\* export_folders, lines 144-162: one page answered with status 200
FoldersPage ==
    /\ pc = "folders_get"
    /\ LET items == Page(offset)
       IN  IF Len(items) = 0
           THEN /\ pc' = "folders_open"
                /\ UNCHANGED <<offset, all_folders>>
           ELSE /\ all_folders' = all_folders \cup
                        {items[i].id : i \in {j \in 1..Len(items) : items[j].type = "folder"}}
                /\ offset' = offset + PAGE_LIMIT
                /\ UNCHANGED pc
    /\ attempt' = 1
    /\ UNCHANGED <<idx, futures, meta_lock>>
    /\ UNCHANGED <<dvars, error, start_offset, log_start, pages_enumerated, materialized>>
    /\ UNCHANGED <<OutsideExport, completed, at_error>>

\* get_json, lines 99-108: an attempt fails (status other than 200, or an
\* exception); after the last attempt the call raises
GetJsonFail ==
    /\ pc \in {"folders_get", "assets_get", "rbac_get"}
    /\ IF attempt < MAX_RETRIES
       THEN /\ attempt' = attempt + 1
            /\ UNCHANGED <<pc, error>>
       ELSE /\ pc' = Raised(pc)
            /\ error' = pc
            /\ UNCHANGED attempt
    /\ at_error' = IF attempt >= MAX_RETRIES /\ pc = "assets_get"
                   THEN {t \in Tasks : futures[t].pc # "done"}
                   ELSE at_error
    /\ UNCHANGED <<offset, idx, all_folders, futures, meta_lock>>
    /\ UNCHANGED <<dvars, start_offset, log_start, pages_enumerated, materialized>>
    /\ UNCHANGED <<OutsideExport, completed>>

\* export_folders, line 164: open(FOLDERS_JSON, "w")
FoldersOpen ==
    /\ pc = "folders_open"
    /\ folders_json' = "partial"
    /\ pc' = "folders_dump"
    /\ UNCHANGED <<state_json, state_tmp, files, assets_jsonl, rbac_json>>
    /\ UNCHANGED <<offset, attempt, idx, all_folders, futures, meta_lock>>
    /\ UNCHANGED <<error, start_offset, log_start, pages_enumerated, materialized>>
    /\ UNCHANGED <<OutsideExport, completed, at_error>>

\* export_folders, lines 165-168: json.dump and close
FoldersDump ==
    /\ pc = "folders_dump"
    /\ folders_json' = "whole"
    /\ pc' = "build"
    /\ UNCHANGED <<state_json, state_tmp, files, assets_jsonl, rbac_json>>
    /\ UNCHANGED <<offset, attempt, idx, all_folders, futures, meta_lock>>
    /\ UNCHANGED <<error, start_offset, log_start, pages_enumerated, materialized>>
    /\ UNCHANGED <<OutsideExport, completed, at_error>>

\* main, line 375, and export_assets, lines 297-305: the folder index is built (the
\* catalog's folders have no parent), the checkpoint is loaded, the pool is created
LoadState ==
    /\ pc = "build"
    /\ IF state_json.exists /\ ~state_json.whole
       THEN /\ pc' = "aborted"
            /\ error' = "state_json"
            /\ UNCHANGED <<offset, start_offset>>
       ELSE /\ pc' = "assets_get"
            /\ offset' = load_state
            /\ start_offset' = load_state
            /\ UNCHANGED error
    /\ attempt' = 1
    /\ all_folders' = {}
    /\ UNCHANGED <<idx, futures, meta_lock>>
    /\ UNCHANGED <<dvars, log_start, pages_enumerated, materialized>>
    /\ UNCHANGED <<OutsideExport, completed, at_error>>

\* export_assets, lines 314-320: one page answered with status 200
AssetsPage ==
    /\ pc = "assets_get"
    /\ pc' = IF Len(Page(offset)) = 0 THEN "join" ELSE "classify"
    /\ idx' = 1
    /\ UNCHANGED <<offset, attempt, all_folders, futures, meta_lock>>
    /\ UNCHANGED <<dvars, error, start_offset, log_start, pages_enumerated, materialized>>
    /\ UNCHANGED <<OutsideExport, completed, at_error>>

\* export_assets, lines 323-334: one item of the page is classified; after the last
\* one the offset moves on
Classify ==
    /\ pc = "classify"
    /\ LET items == Page(offset)
           item == items[idx]
       IN  /\ futures' = IF Submits(item) THEN Append(futures, NewTask(item.id))
                         ELSE futures
           /\ IF idx < Len(items)
              THEN /\ idx' = idx + 1
                   /\ UNCHANGED <<pc, offset, pages_enumerated>>
              ELSE /\ idx' = 1
                   /\ pc' = "save_open"
                   /\ offset' = NextOffset(offset)
                   /\ pages_enumerated' = pages_enumerated + 1
    /\ UNCHANGED <<attempt, all_folders, meta_lock>>
    /\ UNCHANGED <<dvars, error, start_offset, log_start, materialized>>
    /\ UNCHANGED <<OutsideExport, completed, at_error>>

\* save_state, lines 91-92: open(tmp, "w")
SaveOpen ==
    /\ pc = "save_open"
    /\ WriteState(save_state_tmp, [exists |-> TRUE, whole |-> FALSE, last_offset |-> 0])
    /\ pc' = "save_dump"
    /\ UNCHANGED <<files, assets_jsonl, folders_json, rbac_json>>
    /\ UNCHANGED <<offset, attempt, idx, all_folders, futures, meta_lock>>
    /\ UNCHANGED <<error, start_offset, log_start, pages_enumerated, materialized>>
    /\ UNCHANGED <<OutsideExport, completed, at_error>>

\* save_state, line 93: json.dump and close
SaveDump ==
    /\ pc = "save_dump"
    /\ WriteState(save_state_tmp, [exists |-> TRUE, whole |-> TRUE, last_offset |-> offset])
    /\ pc' = "save_replace"
    /\ UNCHANGED <<files, assets_jsonl, folders_json, rbac_json>>
    /\ UNCHANGED <<offset, attempt, idx, all_folders, futures, meta_lock>>
    /\ UNCHANGED <<error, start_offset, log_start, pages_enumerated, materialized>>
    /\ UNCHANGED <<OutsideExport, completed, at_error>>

\* save_state, line 94: os.replace(tmp, STATE_FILE); then the next get_json begins
SaveReplace ==
    /\ pc = "save_replace"
    /\ IF save_state_tmp = STATE_FILE
       THEN UNCHANGED <<state_json, state_tmp>>
       ELSE /\ state_json' = state_tmp
            /\ state_tmp' = NoCheckpoint
    /\ pc' = "assets_get"
    /\ attempt' = 1
    /\ UNCHANGED <<files, assets_jsonl, folders_json, rbac_json>>
    /\ UNCHANGED <<offset, idx, all_folders, futures, meta_lock>>
    /\ UNCHANGED <<error, start_offset, log_start, pages_enumerated, materialized>>
    /\ UNCHANGED <<OutsideExport, completed, at_error>>

\* export_assets, lines 338-346: every future has completed, the pool shuts down,
\* and export_rbac begins
Join ==
    /\ pc = "join"
    /\ AllDone
    /\ pc' = "rbac_get"
    /\ attempt' = 1
    /\ UNCHANGED <<offset, idx, all_folders, futures, meta_lock>>
    /\ UNCHANGED <<dvars, error, start_offset, log_start, pages_enumerated, materialized>>
    /\ UNCHANGED <<OutsideExport, completed, at_error>>

\* the exit of the `with ThreadPoolExecutor` block while get_json's error passes
\* through it: shutdown(wait=True), then the error ends main
Unwind ==
    /\ pc = "unwind"
    /\ AllDone
    /\ pc' = "aborted"
    /\ UNCHANGED <<offset, attempt, idx, all_folders, futures, meta_lock>>
    /\ UNCHANGED <<dvars, error, start_offset, log_start, pages_enumerated, materialized>>
    /\ UNCHANGED <<OutsideExport, completed, at_error>>

\* export_rbac, lines 354-357: the members answered with status 200
RbacPage ==
    /\ pc = "rbac_get"
    /\ pc' = "rbac_open"
    /\ UNCHANGED <<offset, attempt, idx, all_folders, futures, meta_lock>>
    /\ UNCHANGED <<dvars, error, start_offset, log_start, pages_enumerated, materialized>>
    /\ UNCHANGED <<OutsideExport, completed, at_error>>

\* export_rbac, line 358: open(RBAC_JSON, "w")
RbacOpen ==
    /\ pc = "rbac_open"
    /\ rbac_json' = "partial"
    /\ pc' = "rbac_dump"
    /\ UNCHANGED <<state_json, state_tmp, files, assets_jsonl, folders_json>>
    /\ UNCHANGED <<offset, attempt, idx, all_folders, futures, meta_lock>>
    /\ UNCHANGED <<error, start_offset, log_start, pages_enumerated, materialized>>
    /\ UNCHANGED <<OutsideExport, completed, at_error>>

\* export_rbac, lines 359-361, and main, line 383
RbacDump ==
    /\ pc = "rbac_dump"
    /\ rbac_json' = "whole"
    /\ pc' = "done"
    /\ UNCHANGED <<state_json, state_tmp, files, assets_jsonl, folders_json>>
    /\ UNCHANGED <<offset, attempt, idx, all_folders, futures, meta_lock>>
    /\ UNCHANGED <<error, start_offset, log_start, pages_enumerated, materialized>>
    /\ UNCHANGED <<OutsideExport, completed, at_error>>

-----------------------------------------------------------------------------
(* The download workers: download_asset_binary and append_asset_metadata *)

\* what a worker leaves alone unless it says otherwise
OutsideWorker ==
    <<fvars, nvars, cvars, crashes, reruns, completed, lost, at_error, pc, offset, attempt, idx, all_folders,
      error, start_offset, log_start, pages_enumerated, state_json, state_tmp, folders_json,
      rbac_json>>

\* a free worker takes the oldest queued task and runs lines 237-265: the
\* destination is computed and tested
TaskStart(t) ==
    /\ futures[t].pc = "queued"
    /\ \A u \in 1..(t - 1) : futures[u].pc # "queued"
    /\ Cardinality(Running) < MAX_WORKERS
    /\ LET a == futures[t].asset
           present == files[local_path(a)]
       IN  futures' = [futures EXCEPT
               ![t].existed = Len(present) = 1 /\ present[1] > 0,
               ![t].seen = present,
               ![t].attempt = IF SkipTest(a) THEN 0 ELSE 1,
               ![t].outcome = IF SkipTest(a) THEN "skipped" ELSE "none",
               ![t].pc = IF SkipTest(a) THEN "append" ELSE "get"]
    /\ UNCHANGED <<files, assets_jsonl, meta_lock, materialized>>
    /\ UNCHANGED OutsideWorker

\* lines 272-277: the request is answered with status 200 and the temporary file
\* is opened for writing
DownloadRequest(t) ==
    /\ futures[t].pc = "get"
    /\ futures' = [futures EXCEPT ![t].pc = "stream", ![t].reqs = @ + 1]
    /\ files' = [files EXCEPT ![tmp_path(futures[t].asset)] = <<0>>]
    /\ UNCHANGED <<assets_jsonl, meta_lock, materialized>>
    /\ UNCHANGED OutsideWorker

\* a retry loop that allows one attempt more
AfterFailure_OneMore(task) ==
    IF task.attempt <= MAX_RETRIES
    THEN [task EXCEPT !.pc = "get", !.attempt = @ + 1]
    ELSE [task EXCEPT !.pc = "done", !.outcome = GiveUpOutcome]

\* a task that records the asset when it gives up
AfterFailure_RecordsGiveUp(task) ==
    IF task.attempt < MAX_RETRIES
    THEN [task EXCEPT !.pc = "get", !.attempt = @ + 1]
    ELSE [task EXCEPT !.pc = "append", !.outcome = GiveUpOutcome]

\* lines 284-288 after a failed attempt: the next attempt, or the task ends
AfterFailure(task) ==
    IF task.attempt < MAX_RETRIES
    THEN [task EXCEPT !.pc = "get", !.attempt = @ + 1]
    ELSE [task EXCEPT !.pc = "done", !.outcome = GiveUpOutcome]

\* lines 272-275: the request raises or is answered with another status
RequestFail(t) ==
    /\ futures[t].pc = "get"
    /\ futures' = [futures EXCEPT ![t] = AfterFailure([futures[t] EXCEPT !.reqs = @ + 1])]
    /\ UNCHANGED <<files, assets_jsonl, meta_lock, materialized>>
    /\ UNCHANGED OutsideWorker

\* lines 278-280: one more chunk of the response is written to the temporary file
StreamChunk(t) ==
    /\ futures[t].pc = "stream"
    /\ LET tmp == tmp_path(futures[t].asset)
       IN  /\ files[tmp][1] < Payload(futures[t].asset)
           /\ files' = [files EXCEPT ![tmp] = <<files[tmp][1] + 1>>]
    /\ UNCHANGED <<futures, assets_jsonl, meta_lock, materialized>>
    /\ UNCHANGED OutsideWorker

\* line 278: the connection breaks while the response is read
StreamFail(t) ==
    /\ futures[t].pc = "stream"
    /\ futures' = [futures EXCEPT ![t] = AfterFailure(futures[t])]
    /\ UNCHANGED <<files, assets_jsonl, meta_lock, materialized>>
    /\ UNCHANGED OutsideWorker

\* lines 278-281: iter_content has yielded the last chunk of the payload without
\* raising, the file is closed and renamed into place
StreamEnd(t) ==
    /\ futures[t].pc = "stream"
    /\ LET a == futures[t].asset
       IN  /\ files[tmp_path(a)][1] = Payload(a)
           /\ files' = Replace(files, tmp_path(a), local_path(a))
           /\ materialized' = materialized \cup {a}
    /\ futures' = [futures EXCEPT ![t].pc = "append", ![t].outcome = "downloaded"]
    /\ UNCHANGED <<assets_jsonl, meta_lock>>
    /\ UNCHANGED OutsideWorker

\* append_asset_metadata, lines 228-230: the lock is taken, the log is opened for
\* appending and the first part of the record reaches the file
AppendBegin(t) ==
    /\ futures[t].pc = "append"
    /\ LockFree
    /\ meta_lock' = t
    /\ assets_jsonl' = Append(assets_jsonl, futures[t].asset)
    /\ futures' = [futures EXCEPT ![t].pc = "writing"]
    /\ UNCHANGED <<files, materialized>>
    /\ UNCHANGED OutsideWorker

\* append_asset_metadata, line 230 to the end: the rest of the record and its
\* newline reach the file, the file is closed, the lock is released
AppendEnd(t) ==
    /\ futures[t].pc = "writing"
    /\ meta_lock' = 0
    /\ assets_jsonl' = Append(assets_jsonl, "\n")
    /\ futures' = [futures EXCEPT ![t].pc = "done", ![t].appends = @ + 1]
    /\ UNCHANGED <<files, materialized>>
    /\ UNCHANGED OutsideWorker

-----------------------------------------------------------------------------
(* The process is killed, or started again *)

\* the process is killed while it runs: the threads and their memory are gone,
\* the export directory stays as it is
Crash ==
    /\ pc \notin {"idle", "done", "aborted"}
    /\ crashes < MaxCrashes
    /\ crashes' = crashes + 1
    /\ lost' = lost \cup
          {futures[t].asset : t \in {u \in Tasks :
              /\ futures[u].pc # "done"
              /\ state_json.exists
              /\ Position(futures[u].asset) <= state_json.last_offset}}
    /\ Fresh
    /\ UNCHANGED <<dvars, materialized, reruns, completed>>
    /\ UNCHANGED <<fvars, nvars, cvars>>

\* the exporter is started again after a run has ended
Rerun ==
    /\ pc \in {"done", "aborted"}
    /\ reruns < MaxReruns
    /\ reruns' = reruns + 1
    /\ completed' = IF pc = "done" THEN <<files>> ELSE completed
    /\ Fresh
    /\ UNCHANGED <<dvars, materialized, crashes, lost>>
    /\ UNCHANGED <<fvars, nvars, cvars>>


\* what the file-name computation does not touch
OutsideNames == <<fvars, evars>>

-----------------------------------------------------------------------------
(* The destination file name: download_asset_binary, lines 237-259 *)

RECURSIVE IndexOf(_, _)
\* the position of the first c in s, 0 if there is none
IndexOf(s, c) ==
    IF Len(s) = 0 THEN 0
    ELSE IF Head(s) = c THEN 1
    ELSE LET i == IndexOf(Tail(s), c) IN IF i = 0 THEN 0 ELSE i + 1

Jpeg == <<"j", "p", "e", "g">>
Pjpeg == <<"p">> \o Jpeg
Plain == <<"p", "l", "a", "i", "n">>

\* guess_ext, lines 118-130
guess_ext(mime_type) ==
    IF Len(mime_type) = 0 \/ Len(mime_type[1]) = 0 THEN <<>>
    ELSE LET m == mime_type[1]
             i == IndexOf(m, "/")
         IN  IF i = 0 THEN <<>>
             ELSE LET rest == SubSeq(m, i + 1, Len(m))
                      j == IndexOf(rest, ";")
                      subtype == IF j = 0 THEN rest ELSE SubSeq(rest, 1, j - 1)
                  IN  IF subtype \in {Jpeg, Pjpeg} THEN <<".", "j", "p", "g">>
                      ELSE IF subtype = Plain THEN <<".", "t", "x", "t">>
                      ELSE <<".">> \o subtype

\* line 238: asset.get("name") or asset_id
DisplayName(asset) ==
    IF Len(asset.name) = 0 \/ Len(asset.name[1]) = 0 THEN asset.id ELSE asset.name[1]

\* lines 256-258: f"{asset_id}_{safe_name}{ext}"
FileName(asset) ==
    asset.id \o <<"_">> \o sanitize_filename(DisplayName(asset)) \o guess_ext(asset.mimeType)

\* the two assets drawn: ids and media types that hold '_' and '.', a name that
\* needs sanitizing, a missing name, the media types guess_ext tells apart
NameIds == { <<"a">>, <<"b">>, <<"a", "_", "b", ".">> }

NameNames == { <<>>, << <<"b">> >>, << <<"b", "/">> >> }

NameMimes ==
    { <<>>, << <<>> >>, << <<"t", "/", "_", "b">> >>, << <<"i", "/">> \o Jpeg >>,
      << <<"t", "/">> \o Plain >>, << <<"x">> >>, << <<"t", "/", "b", ";", "q">> >> }

AssetRecords == [id : NameIds, name : NameNames, mimeType : NameMimes]

NamesIdle ==
    /\ assets = <<>>
    /\ filenames = <<>>

\* the first lines of download_asset_binary for asset i, up to local_path
ComputeFileName(i) ==
    /\ Len(assets) = 2
    /\ Len(filenames[i]) = 0
    /\ filenames' = [filenames EXCEPT ![i] = <<FileName(assets[i])>>]
    /\ UNCHANGED assets
    /\ UNCHANGED OutsideNames

-----------------------------------------------------------------------------
(* build_folder_paths *)

FolderIds == {"A", "B", "C"}

\* a parent reference that names no folder of the set
UnknownId == "X"

\* the interpreter's bound on the depth of nested calls, scaled to the model
RecursionLimit == 6

Keys(fs) == {fs[i].id : i \in 1..Len(fs)} \ {"Absent"}

\* by_id = {f["id"]: f for f in folders if "id" in f}: the last record of an id wins
ById(fs) ==
    [k \in Keys(fs) |->
        fs[CHOOSE i \in 1..Len(fs) :
              /\ fs[i].id = k
              /\ \A j \in (i + 1)..Len(fs) : fs[j].id # k]]

\* the iteration order of by_id: the order in which the keys were first inserted
RECURSIVE KeyOrder(_, _)
KeyOrder(fs, seen) ==
    IF Len(fs) = 0 THEN <<>>
    ELSE IF Head(fs).id = "Absent" \/ Head(fs).id \in seen THEN KeyOrder(Tail(fs), seen)
    ELSE <<Head(fs).id>> \o KeyOrder(Tail(fs), seen \cup {Head(fs).id})

by_id == ById(folders)

\* get_parent_id: the first candidate key the record holds decides, whatever its
\* value; then the nested parent object
get_parent_id(folder) ==
    IF folder.parentID # "Absent" THEN folder.parentID
    ELSE IF folder.parentId # "Absent" THEN folder.parentId
    ELSE IF folder.parentFolderId # "Absent" THEN folder.parentFolderId
    ELSE IF folder.parent # "Absent" THEN folder.parent
    ELSE "None"

\* Python truth of a parent id
Truthy(x) == x \notin {"None", ""}

\* folder.get("name", fid)
RawName(folder) == IF Len(folder.name) = 0 THEN <<folder.id>> ELSE folder.name[1]

FolderName(fid) == sanitize_filename(RawName(by_id[fid]))

HasParent(fid) ==
    LET parent_id == get_parent_id(by_id[fid])
    IN  Truthy(parent_id) /\ parent_id \in DOMAIN by_id

\* line 208 with the operands swapped
JoinPath_Swapped(parent_path, name) ==
    IF Len(parent_path) > 0 THEN OsPathJoin(name, parent_path) ELSE name

\* line 208: os.path.join(parent_path, name) if parent_path else name
JoinPath(parent_path, name) ==
    IF Len(parent_path) > 0 THEN OsPathJoin(parent_path, name) ELSE name

NoPaths == [k \in FolderIds |-> <<>>]

\* what a call of build_folder_paths does not touch
OutsideFolders == <<nvars, evars>>

\* lines 183, 196, 214: the index, the empty memo and the empty result
BuildStart ==
    /\ fpc = "init"
    /\ fpc' = "loop"
    /\ remaining' = KeyOrder(folders, {})
    /\ cache' = NoPaths
    /\ folder_paths' = NoPaths
    /\ UNCHANGED <<folders, stack, retval, cacheHits>>
    /\ UNCHANGED OutsideFolders

\* line 215: the next key, or the end of the loop
LoopNext ==
    /\ fpc = "loop"
    /\ Len(stack) = 0
    /\ Len(retval) = 0
    /\ IF Len(remaining) = 0
       THEN /\ fpc' = "done"
            /\ UNCHANGED stack
       ELSE /\ stack' = <<Head(remaining)>>
            /\ UNCHANGED fpc
    /\ UNCHANGED <<folders, cache, folder_paths, retval, remaining, cacheHits>>
    /\ UNCHANGED OutsideFolders

\* lines 199-211 of the innermost call, up to its return or its nested call
ResolveEnter ==
    /\ fpc = "loop"
    /\ Len(stack) > 0
    /\ Len(retval) = 0
    /\ LET fid == stack[Len(stack)]
           pop == SubSeq(stack, 1, Len(stack) - 1)
       IN  IF Len(cache[fid]) > 0
           THEN /\ retval' = cache[fid]
                /\ stack' = pop
                /\ cacheHits' = cacheHits + 1
                /\ UNCHANGED <<cache, fpc>>
           ELSE IF fid \notin DOMAIN by_id
           THEN /\ retval' = << <<>> >>
                /\ stack' = pop
                /\ UNCHANGED <<cache, fpc, cacheHits>>
           ELSE IF HasParent(fid)
           THEN IF Len(stack) >= RecursionLimit
                THEN /\ fpc' = "RecursionError"
                     /\ UNCHANGED <<stack, retval, cache, cacheHits>>
                ELSE /\ stack' = Append(stack, get_parent_id(by_id[fid]))
                     /\ UNCHANGED <<retval, cache, fpc, cacheHits>>
           ELSE /\ cache' = [cache EXCEPT ![fid] = <<FolderName(fid)>>]
                /\ retval' = <<FolderName(fid)>>
                /\ stack' = pop
                /\ UNCHANGED <<fpc, cacheHits>>
    /\ UNCHANGED <<folders, folder_paths, remaining>>
    /\ UNCHANGED OutsideFolders

\* lines 207-212 of a call whose nested call has returned
ResolveReturn ==
    /\ fpc = "loop"
    /\ Len(stack) > 0
    /\ Len(retval) = 1
    /\ LET fid == stack[Len(stack)]
           path == JoinPath(retval[1], FolderName(fid))
       IN  /\ cache' = [cache EXCEPT ![fid] = <<path>>]
           /\ retval' = <<path>>
           /\ stack' = SubSeq(stack, 1, Len(stack) - 1)
    /\ UNCHANGED <<folders, folder_paths, remaining, fpc, cacheHits>>
    /\ UNCHANGED OutsideFolders

\* line 216: folder_paths[fid] = resolve_path(fid)
LoopStore ==
    /\ fpc = "loop"
    /\ Len(stack) = 0
    /\ Len(retval) = 1
    /\ folder_paths' = [folder_paths EXCEPT ![Head(remaining)] = retval]
    /\ remaining' = Tail(remaining)
    /\ retval' = <<>>
    /\ UNCHANGED <<folders, cache, stack, fpc, cacheHits>>
    /\ UNCHANGED OutsideFolders

\* the folder sets drawn: every order of the ids (or of two or one of them), every
\* parent reference, three raw names, and the key the catalog uses for the parent
RawNames == { <<>>, << <<" ", "b", "/">> >>, << <<" ">> >> }

ParentRefs == FolderIds \cup {UnknownId, "None"}

ParentKeys == {"parentID", "parentId", "parentFolderId", "parent", "shadowed"}

FolderRecord(id, name, key, p) ==
    [id |-> id, name |-> name,
     parentID |-> IF key = "parentID" /\ p # "None" THEN p
                  ELSE IF key = "shadowed" THEN "None" ELSE "Absent",
     parentId |-> IF key \in {"parentId", "shadowed"} /\ p # "None" THEN p ELSE "Absent",
     parentFolderId |-> IF key = "parentFolderId" /\ p # "None" THEN p ELSE "Absent",
     parent |-> IF key = "parent" /\ p # "None" THEN p ELSE "Absent"]

IdOrders ==
    {s \in UNION {[1..n -> FolderIds] : n \in 1..Cardinality(FolderIds)} :
        \A i, j \in 1..Len(s) : i # j => s[i] # s[j]}

FoldersIdle ==
    /\ folders = <<>>
    /\ cache = NoPaths
    /\ folder_paths = NoPaths
    /\ stack = <<>>
    /\ retval = <<>>
    /\ remaining = <<>>
    /\ fpc = "init"
    /\ cacheHits = 0

InitFolders ==
    /\ NamesIdle
    /\ ExportIdle
    /\ \E ids \in IdOrders, key \in ParentKeys :
       \E names \in [1..Len(ids) -> RawNames], ps \in [1..Len(ids) -> ParentRefs] :
          folders = [i \in 1..Len(ids) |-> FolderRecord(ids[i], names[i], key, ps[i])]
    /\ cache = NoPaths
    /\ folder_paths = NoPaths
    /\ stack = <<>>
    /\ retval = <<>>
    /\ remaining = <<>>
    /\ fpc = "init"
    /\ cacheHits = 0

NextFolders ==
    \/ BuildStart
    \/ LoopNext
    \/ ResolveEnter
    \/ ResolveReturn
    \/ LoopStore

SpecFolders == InitFolders /\ [][NextFolders]_vars

InitNames ==
    /\ FoldersIdle
    /\ ExportIdle
    /\ assets \in [1..2 -> AssetRecords]
    /\ filenames = <<<<>>, <<>>>>

NextNames == \E i \in 1..2 : ComputeFileName(i)

SpecNames == InitNames /\ [][NextNames]_vars

-----------------------------------------------------------------------------
(* The run of main() as a specification *)

Init ==
    /\ FoldersIdle
    /\ NamesIdle
    /\ CONFIG = TheConfig
    /\ catalog = TheCatalog
    /\ state_json = NoCheckpoint
    /\ state_tmp = NoCheckpoint
    /\ files = [p \in Paths |-> NoFile]
    /\ assets_jsonl = <<>>
    /\ folders_json = "absent"
    /\ rbac_json = "absent"
    /\ pc = "main"
    /\ offset = 0
    /\ attempt = 1
    /\ idx = 1
    /\ all_folders = {}
    /\ futures = <<>>
    /\ meta_lock = 0
    /\ error = "none"
    /\ start_offset = 0
    /\ log_start = 0
    /\ pages_enumerated = 0
    /\ materialized = {}
    /\ crashes = 0
    /\ reruns = 0
    /\ completed = <<>>
    /\ lost = {}
    /\ at_error = {}

Next ==
    \/ MainStart
    \/ FoldersPage
    \/ GetJsonFail
    \/ FoldersOpen
    \/ FoldersDump
    \/ LoadState
    \/ AssetsPage
    \/ Classify
    \/ SaveOpen
    \/ SaveDump
    \/ SaveReplace
    \/ Join
    \/ Unwind
    \/ RbacPage
    \/ RbacOpen
    \/ RbacDump
    \/ \E t \in Tasks : TaskStart(t)
    \/ \E t \in Tasks : DownloadRequest(t)
    \/ \E t \in Tasks : RequestFail(t)
    \/ \E t \in Tasks : StreamChunk(t)
    \/ \E t \in Tasks : StreamFail(t)
    \/ \E t \in Tasks : StreamEnd(t)
    \/ \E t \in Tasks : AppendBegin(t)
    \/ \E t \in Tasks : AppendEnd(t)
    \/ Crash
    \/ Rerun

Spec == Init /\ [][Next]_vars

-----------------------------------------------------------------------------
(* Claims about build_folder_paths (SpecFolders) *)

\* C1: build_folder_paths terminates with a path for every folder id for any
\* folder set, cyclic ones included: resolve_path never exhausts the depth of
\* nested calls, and when the loop has ended every id of by_id has its path
C1_TerminatesOnAnyFolderSet ==
    /\ fpc # "RecursionError"
    /\ fpc = "done" => \A f \in DOMAIN by_id : Len(folder_paths[f]) = 1

RECURSIVE AncestorChain(_, _)
\* the ids from the topmost ancestor down to fid, following at most n parent references
AncestorChain(fid, n) ==
    IF n = 0 \/ ~HasParent(fid) THEN <<fid>>
    ELSE AncestorChain(get_parent_id(by_id[fid]), n - 1) \o <<fid>>

RECURSIVE JoinNames(_)
\* the sanitized names of the folders ids, joined by the separator
JoinNames(ids) ==
    IF Len(ids) = 1 THEN FolderName(ids[1])
    ELSE FolderName(Head(ids)) \o <<"/">> \o JoinNames(Tail(ids))

NumFolders == Cardinality(DOMAIN by_id)

\* no folder is its own ancestor
Acyclic ==
    \A f \in DOMAIN by_id :
        \A n \in 1..NumFolders : Head(AncestorChain(f, n)) # f \/ ~HasParent(f)

ExpectedPath(f) == JoinNames(AncestorChain(f, NumFolders))

\* C2: on a folder set without cycles every path resolved, memoized or stored, is
\* the sanitized names of the folder's ancestors from the topmost one down to the
\* folder itself, and the finished index holds that path for every folder,
\* whatever the order the folders were visited in
C2_PathIsAncestorChain ==
    (Len(folders) > 0 /\ Acyclic) =>
        /\ fpc # "RecursionError"
        /\ \A f \in DOMAIN by_id :
              /\ Len(cache[f]) = 1 => cache[f][1] = ExpectedPath(f)
              /\ Len(folder_paths[f]) = 1 => folder_paths[f][1] = ExpectedPath(f)
              /\ fpc = "done" => Len(folder_paths[f]) = 1

\* a chain of three folders, visited child first or last, one call answered from
\* the memo, and a name that sanitizing changed
C2_Witness ==
    /\ fpc = "done"
    /\ Acyclic
    /\ cacheHits > 0
    /\ \E f \in DOMAIN by_id :
          /\ Len(AncestorChain(f, NumFolders)) = 3
          /\ folder_paths[f] = <<ExpectedPath(f)>>
          /\ \E g \in DOMAIN by_id : FolderName(g) # RawName(by_id[g])

-----------------------------------------------------------------------------
(* Claims about a run of main() (Spec) *)

\* the offset a reader of state.json gets
Checkpoint == IF state_json.exists THEN state_json.last_offset ELSE 0

\* the run has loaded its checkpoint and is in export_assets or past it
AfterLoad ==
    \/ pc \in {"assets_get", "classify", "save_open", "save_dump", "save_replace",
               "join", "unwind", "rbac_get", "rbac_open", "rbac_dump", "done"}
    \/ pc = "aborted" /\ error \in {"assets_get", "rbac_get"}

NonZero(f) == Len(f) = 1 /\ f[1] > 0

\* C3: a task that finds its destination file present with non-zero size issues no
\* request for the binary, appends one metadata record, no more, and ends; the
\* file stays as the task found it
C3_ExistingFileIsNotFetchedAgain ==
    \A t \in Tasks :
        futures[t].existed =>
            /\ futures[t].reqs = 0
            /\ futures[t].pc \in {"append", "writing", "done"}
            /\ futures[t].appends = IF futures[t].pc = "done" THEN 1 ELSE 0
            /\ files[local_path(futures[t].asset)] = futures[t].seen

\* after a kill, a task of the new run found its file, recorded it and ended
C3_Witness ==
    /\ crashes = 1
    /\ \E t \in Tasks :
          /\ futures[t].existed
          /\ futures[t].pc = "done"
          /\ futures[t].appends = 1
          /\ futures[t].reqs = 0

\* C4: a destination path holds a file of non-zero size only if a transfer wrote
\* the whole payload to the '.part' path and renamed it into place; a partial
\* payload is never at the destination, and the skip test never accepts one
C4_DestinationHoldsWholePayloadOnly ==
    /\ \A a \in ItemIds :
          NonZero(files[local_path(a)]) =>
              /\ a \in materialized
              /\ files[local_path(a)][1] = Payload(a)
    /\ \A t \in Tasks :
          futures[t].outcome = "skipped" =>
              /\ futures[t].asset \in materialized
              /\ futures[t].seen = <<Payload(futures[t].asset)>>

\* a kill left half a payload under the '.part' path; the task of the next run did
\* not take it for a finished download
C4_Witness ==
    /\ crashes = 1
    /\ \E t \in Tasks :
          LET a == futures[t].asset
          IN  /\ futures[t].pc = "get"
              /\ ~futures[t].existed
              /\ files[local_path(a)] = NoFile
              /\ NonZero(files[tmp_path(a)])
              /\ files[tmp_path(a)][1] < Payload(a)

\* where the checkpoint stands in a run that has loaded it: one page behind the
\* pages classified while save_state is writing, level with them otherwise
C5_CheckpointCountsPages ==
    AfterLoad =>
        Checkpoint = start_offset + PAGE_LIMIT *
            (pages_enumerated -
                (IF pc \in {"save_open", "save_dump", "save_replace"} THEN 1 ELSE 0))

\* C5: the offset in state.json never decreases, across fetches, saves, kills and
\* restarts, and in a run it is the offset the run started from plus PAGE_LIMIT
\* for each non-empty page the run has enumerated and saved, whatever the state
\* of those pages' downloads
C5_CheckpointMonotoneAndCountsPages ==
    /\ []C5_CheckpointCountsPages
    /\ [][Checkpoint' >= Checkpoint]_vars

\* the second run started from the first page's checkpoint, and has saved the
\* second page while none of its downloads has finished
C5_Witness ==
    /\ crashes = 1
    /\ start_offset = 2
    /\ pc = "assets_get"
    /\ Checkpoint = 4
    /\ Len(futures) = 2
    /\ \A t \in Tasks : futures[t].pc # "done"

SubmitCount(id) == Cardinality({t \in Tasks : futures[t].asset = id})

\* the item at position i of the catalog has been classified by this run
Classified(i) ==
    /\ AfterLoad
    /\ start_offset < i
    /\ i <= (IF pc = "classify" THEN offset + idx - 1 ELSE offset)

\* C6: whatever attempts of a page fetch failed before one succeeded, every
\* non-folder item of a page the run has classified was submitted once, nothing
\* else was submitted, and while a page is being fetched or classified the
\* checkpoint is not past its offset
C6_PageProcessedOnceAfterRetries ==
    /\ \A i \in 1..Len(catalog) :
          SubmitCount(catalog[i].id) =
              IF Classified(i) /\ catalog[i].type # "folder" THEN 1 ELSE 0
    /\ pc \in {"assets_get", "classify"} => Checkpoint <= offset

\* the second page came with the last attempt allowed, after the first page had
\* needed no retry, and all of it has been classified
C6_Witness ==
    /\ pc = "save_open"
    /\ attempt = MAX_RETRIES
    /\ attempt > 1
    /\ offset = 4
    /\ SubmitCount("a1") = 1 /\ SubmitCount("a2") = 1 /\ SubmitCount("a3") = 1
    /\ Checkpoint = 2

\* C7: when every attempt to fetch a catalog page has failed the run is over: the
\* main thread only leaves export_assets and ends, it fetches no page, does not
\* export the members and does not complete; and when the page was one of
\* export_assets, state.json holds the offset of that page
C7_ExhaustedFetchAbortsRun ==
    error \in {"folders_get", "assets_get"} =>
        /\ pc \in {"unwind", "aborted"}
        /\ attempt = MAX_RETRIES
        /\ error = "assets_get" => Checkpoint = offset

\* the fetch of the second page failed for good after the first had been classified
\* and saved
C7_Witness ==
    /\ pc = "aborted"
    /\ error = "assets_get"
    /\ offset = 2
    /\ Checkpoint = 2
    /\ Len(futures) = 1

\* a step of the program, as opposed to a kill or a restart
ProgramStep ==
    \/ MainStart \/ FoldersPage \/ GetJsonFail \/ FoldersOpen \/ FoldersDump
    \/ LoadState \/ AssetsPage \/ Classify \/ SaveOpen \/ SaveDump \/ SaveReplace
    \/ Join \/ Unwind \/ RbacPage \/ RbacOpen \/ RbacDump
    \/ \E t \in Tasks :
          \/ TaskStart(t) \/ DownloadRequest(t) \/ RequestFail(t) \/ StreamChunk(t)
          \/ StreamFail(t) \/ StreamEnd(t) \/ AppendBegin(t) \/ AppendEnd(t)

\* C8: a download that has used all its attempts ends its task without raising and
\* frees its worker; the run is ended early by a failed get_json only; as long as
\* the run has not ended some thread can take a step; and when export_assets has
\* returned every task has ended, each one that did not give up with its file in
\* place and recorded
C8_GivenUpAssetBlocksNothing ==
    /\ \A t \in Tasks :
          /\ futures[t].outcome # "raised"
          /\ futures[t].outcome = "gaveup" =>
                /\ futures[t].pc = "done"
                /\ futures[t].reqs <= MAX_RETRIES
    /\ pc \in {"unwind", "aborted"} => error # "none"
    /\ pc \notin {"idle", "done", "aborted"} => ENABLED ProgramStep
    /\ pc \in {"rbac_get", "rbac_open", "rbac_dump", "done"} =>
          \A t \in Tasks :
              /\ futures[t].pc = "done"
              /\ futures[t].outcome \in {"gaveup", "downloaded", "skipped"}
              /\ futures[t].outcome # "gaveup" =>
                    /\ files[local_path(futures[t].asset)] = <<Payload(futures[t].asset)>>
                    /\ futures[t].appends = 1

\* the first asset was given up, the two submitted after it were downloaded, and
\* the run completed
C8_Witness ==
    /\ pc = "done"
    /\ Len(futures) = 3
    /\ futures[1].outcome = "gaveup"
    /\ futures[2].outcome = "downloaded"
    /\ futures[3].outcome = "downloaded"
    /\ files[local_path(futures[1].asset)] = NoFile

InSection == {t \in Tasks : futures[t].pc = "writing"}

\* what this process has added to the log
Added == SubSeq(assets_jsonl, log_start + 1, Len(assets_jsonl))

\* the number of whole records of asset id in s: its id directly followed by the newline
Records(s, id) ==
    Cardinality({i \in 1..(Len(s) - 1) : s[i] = id /\ s[i + 1] = "\n"})

\* s is whole records one after another, with the first part of one more at its
\* end when open is TRUE
WellFormed(s, open) ==
    /\ Len(s) % 2 = (IF open THEN 1 ELSE 0)
    /\ \A i \in 1..Len(s) : (s[i] = "\n") <=> (i % 2 = 0)

\* the log between calls and during one
C10_OneWriterWholeRecords ==
    /\ Cardinality(InSection) <= 1
    /\ meta_lock # 0 <=> InSection # {}
    /\ meta_lock # 0 => InSection = {meta_lock}
    /\ WellFormed(Added, InSection # {})
    /\ InSection # {} =>
          assets_jsonl[Len(assets_jsonl)] = futures[meta_lock].asset
    /\ \A id \in ItemIds :
          Records(Added, id) =
              Cardinality({t \in Tasks : futures[t].asset = id /\ futures[t].appends = 1})
    /\ \A t \in Tasks : futures[t].appends <= 1

\* C10: at most one worker is between the open and the close of assets.jsonl at a
\* time; what the workers of a process add to the log is one whole record with
\* its newline for each call that has returned, none of them mixed with another
\* or lost; and the log only grows
C10_AppendsAreSerialized ==
    /\ []C10_OneWriterWholeRecords
    /\ [][/\ Len(assets_jsonl') >= Len(assets_jsonl)
          /\ SubSeq(assets_jsonl', 1, Len(assets_jsonl)) = assets_jsonl]_vars

\* one worker is writing its record while another waits for the lock, after a
\* first record has been written
C10_Witness ==
    /\ \E t, u \in Tasks :
          /\ futures[t].pc = "writing"
          /\ futures[u].pc = "append"
    /\ Len(Added) = 3

\* C11: once a run has completed, every later run over the unchanged catalog
\* leaves each destination file, and each '.part' file, as that run left it, and
\* folders.json, from which the folder paths are computed, stays the whole file
\* it was
C11_SecondRunChangesNoFile ==
    completed # <<>> =>
        /\ files = completed[1]
        /\ folders_json = "whole"

\* the second run is about to complete after a first run that completed with one
\* file in place and one asset given up; the given-up asset is still missing
C11_Witness ==
    /\ reruns = 1
    /\ completed # <<>>
    /\ pc = "rbac_dump"
    /\ start_offset = Len(catalog)
    /\ \E a, b \in ItemIds :
          /\ Item(a).type # "folder" /\ Item(b).type # "folder"
          /\ files[local_path(a)] = <<Payload(a)>>
          /\ files[local_path(b)] = NoFile

\* C12: when a run has completed, whatever kills and restarts came before it,
\* every asset whose file was renamed into place has a whole record in
\* assets.jsonl
C12_MaterializedAssetsAreRecorded ==
    pc = "done" =>
        \A a \in materialized :
            files[local_path(a)] = <<Payload(a)>> => Records(assets_jsonl, a) >= 1

\* C13: the assets whose tasks a kill ended after the checkpoint of their page had
\* been saved are behind the offset every later run starts from: the run starts
\* at the saved offset, requests no page below it, and submits none of them again
C13_RestartSkipsCheckpointedPage ==
    /\ \A t \in Tasks : futures[t].asset \notin lost
    /\ AfterLoad =>
          /\ \A a \in lost : Position(a) <= start_offset
          /\ start_offset <= offset
          /\ start_offset <= Checkpoint

\* a kill ended the first page's downloads after its checkpoint was saved; the
\* restarted run began at the second page and has completed, and an asset of the
\* first page is still not on disk
C13_Witness ==
    /\ crashes = 1
    /\ reruns = 0
    /\ pc = "done"
    /\ start_offset = PAGE_LIMIT
    /\ pages_enumerated = 1
    /\ \E a \in lost :
          /\ Position(a) <= PAGE_LIMIT
          /\ files[local_path(a)] = NoFile

\* a step of the main thread inside the pagination loop of export_assets
PaginationStep ==
    AssetsPage \/ GetJsonFail \/ Classify \/ SaveOpen \/ SaveDump \/ SaveReplace

\* C14: inside the pagination loop the main thread can always take its next step,
\* whatever the download tasks are doing; it is waiting for the tasks only when
\* the page at its offset is empty; and export_assets has returned only when
\* every task submitted by the run has ended, having skipped or materialized its
\* file or given up
C14_JoinOnlyAfterEmptyPage ==
    /\ pc \in {"assets_get", "classify", "save_open", "save_dump", "save_replace"} =>
          ENABLED PaginationStep
    /\ pc = "join" =>
          /\ Len(Page(offset)) = 0
          /\ error = "none"
    /\ pc \in {"rbac_get", "rbac_open", "rbac_dump", "done"} =>
          \A t \in Tasks :
              /\ futures[t].pc = "done"
              /\ futures[t].outcome \in {"skipped", "downloaded", "gaveup"}

\* the main thread has gone through both pages and seen the empty one while none
\* of the three downloads it submitted has ended
C14_Witness ==
    /\ pc = "join"
    /\ crashes = 0 /\ reruns = 0
    /\ Len(futures) = 3
    /\ pages_enumerated = 2
    /\ \A t \in Tasks : futures[t].pc # "done"
    /\ \E t \in Tasks : futures[t].pc = "queued"

\* C15: state.json is absent, and read as offset 0, or it is one whole checkpoint
\* that save_state has written: while save_state runs it is still the one saved
\* before (absent when none was), after it the new one, and no run finds it
\* partly written, however the runs before it ended
C15_CheckpointIsAbsentOrWhole ==
    /\ state_json.exists => state_json.whole
    /\ ~state_json.exists => (state_json = NoCheckpoint /\ load_state = 0)
    /\ error # "state_json"
    /\ pc \in {"save_open", "save_dump", "save_replace"} =>
          Checkpoint = offset - PAGE_LIMIT
    /\ pc = "save_replace" =>
          state_tmp = [exists |-> TRUE, whole |-> TRUE, last_offset |-> offset]
    /\ pc \in {"assets_get", "classify"} => Checkpoint = offset

\* the process was killed while save_state was writing the second checkpoint: the
\* restarted run has loaded the first one, with the half-written temporary file
\* still beside it
C15_Witness ==
    /\ crashes = 1
    /\ pc = "assets_get"
    /\ state_tmp.exists /\ ~state_tmp.whole
    /\ state_json = [exists |-> TRUE, whole |-> TRUE, last_offset |-> PAGE_LIMIT]
    /\ start_offset = PAGE_LIMIT
    /\ offset = PAGE_LIMIT

Attempts == 1..MAX_RETRIES

FetchStates == {"folders_get", "assets_get", "rbac_get"}

\* the attempts of get_json and of every download, in one state
C16_AttemptsWithinCeiling ==
    /\ attempt \in Attempts
    /\ error \in FetchStates => attempt = MAX_RETRIES
    /\ \A t \in Tasks :
          LET task == futures[t]
          IN  /\ task.attempt \in 0..MAX_RETRIES
              /\ task.pc = "queued" => task.attempt = 0 /\ task.reqs = 0
              /\ task.pc = "get" => task.attempt \in Attempts /\ task.reqs = task.attempt - 1
              /\ task.pc = "stream" => task.attempt \in Attempts /\ task.reqs = task.attempt
              /\ task.outcome = "skipped" => task.attempt = 0 /\ task.reqs = 0
              /\ task.outcome = "downloaded" =>
                    task.attempt \in Attempts /\ task.reqs = task.attempt
              /\ task.outcome = "gaveup" =>
                    task.attempt = MAX_RETRIES /\ task.reqs = MAX_RETRIES

\* the tasks that exist before and after a step
Surviving == {t \in Tasks : t <= Len(futures') /\ futures'[t].asset = futures[t].asset}

\* C16: get_json and every download make MAX_RETRIES attempts at most, stop at the
\* first that succeeds and fail after the last, having made them all; every call
\* of get_json starts at attempt 1; and a step changes one counter at most, by
\* one attempt of its own call: a download's failures leave the other downloads
\* and get_json their attempts, and get_json's leave the downloads theirs
C16_BoundedIndependentAttempts ==
    /\ []C16_AttemptsWithinCeiling
    /\ [][/\ (pc' \in FetchStates /\ (pc # pc' \/ offset' # offset)) => attempt' = 1
          /\ (pc' = pc /\ pc \in FetchStates /\ offset' = offset) =>
                attempt' \in {attempt, attempt + 1}
          /\ \A t \in Surviving :
                futures'[t].attempt # futures[t].attempt =>
                    /\ futures'[t].attempt = futures[t].attempt + 1
                    /\ attempt' = attempt
                    /\ \A u \in Surviving \ {t} :
                          futures'[u].attempt = futures[u].attempt
          /\ attempt' # attempt =>
                \A t \in Surviving : futures'[t].attempt = futures[t].attempt]_vars

\* one download has given up after all its attempts while another, started after
\* it, succeeded at its first, and the fetch of the next page is at its last attempt
C16_Witness ==
    /\ pc = "assets_get"
    /\ attempt = MAX_RETRIES
    /\ \E t, u \in Tasks :
          /\ t < u
          /\ futures[t].outcome = "gaveup"
          /\ futures[t].reqs = MAX_RETRIES
          /\ futures[u].outcome = "downloaded"
          /\ futures[u].attempt = 1

\* the process has not been killed or started again, and export_assets has
\* returned without a download given up
CleanRunReturned ==
    /\ crashes = 0 /\ reruns = 0
    /\ pc \in {"rbac_get", "rbac_open", "rbac_dump", "done"}
    /\ \A t \in Tasks : futures[t].outcome # "gaveup"

\* C17: in a first run that is not interrupted no folder item is ever submitted,
\* and when export_assets returns with no fetch exhausted and no download given
\* up, every other item of the catalog has its whole file at its destination and
\* a whole record in assets.jsonl
C17_CleanRunExportsEveryFile ==
    /\ (crashes = 0 /\ reruns = 0) =>
          \A t \in Tasks : Item(futures[t].asset).type # "folder"
    /\ CleanRunReturned =>
          \A i \in 1..Len(catalog) :
              LET id == catalog[i].id
              IN  IF catalog[i].type = "folder"
                  THEN SubmitCount(id) = 0 /\ files[local_path(id)] = NoFile
                  ELSE /\ files[local_path(id)] = <<Payload(id)>>
                       /\ Records(assets_jsonl, id) >= 1

\* the first run has completed after retries of a page fetch and of a download,
\* with the three files of the catalog in place
C17_Witness ==
    /\ CleanRunReturned
    /\ pc = "done"
    /\ start_offset = 0
    /\ Len(futures) = 3
    /\ \E t \in Tasks : futures[t].attempt = MAX_RETRIES /\ futures[t].outcome = "downloaded"
    /\ Len(assets_jsonl) = 6

\* the log and the tasks in one state
C18_RecordsHaveFiles ==
    /\ \A i \in 1..Len(assets_jsonl) :
          assets_jsonl[i] # "\n" =>
              /\ assets_jsonl[i] \in materialized
              /\ files[local_path(assets_jsonl[i])] = <<Payload(assets_jsonl[i])>>
    /\ \A t \in Tasks :
          LET task == futures[t]
          IN  /\ task.pc \in {"append", "writing"} \/ task.appends > 0 =>
                    /\ task.outcome \in {"skipped", "downloaded"}
                    /\ files[local_path(task.asset)] = <<Payload(task.asset)>>
              /\ task.outcome = "gaveup" \/ task.pc \in {"queued", "get", "stream"} =>
                    task.appends = 0 /\ meta_lock # t

\* C18: every record of assets.jsonl, whole or being written, names an asset whose
\* whole file is at its destination, and was at the step that began the record:
\* a task appends only after its skip test succeeded or its '.part' file was
\* renamed into place, and a task that has given up, or is still waiting or
\* transferring, has appended nothing
C18_RecordOnlyAfterFileInPlace ==
    /\ []C18_RecordsHaveFiles
    /\ [][Len(assets_jsonl') > Len(assets_jsonl) /\ assets_jsonl'[Len(assets_jsonl')] # "\n" =>
            LET a == assets_jsonl'[Len(assets_jsonl')]
            IN  /\ files[local_path(a)] = <<Payload(a)>>
                /\ files' = files
                /\ \E t \in Tasks :
                      /\ futures[t].asset = a
                      /\ futures[t].pc = "append"
                      /\ futures[t].outcome \in {"skipped", "downloaded"}]_vars

\* the log holds the record of a download and the record of a file a later run
\* found in place, while another asset was given up and has no record
C18_Witness ==
    /\ crashes = 1
    /\ \E t, u \in Tasks :
          /\ futures[t].outcome = "skipped" /\ futures[t].appends = 1
          /\ futures[u].outcome = "gaveup"
          /\ Records(assets_jsonl, futures[u].asset) = 0
          /\ Records(assets_jsonl, futures[t].asset) = 1
    /\ \E a \in ItemIds : Records(SubSeq(assets_jsonl, 1, log_start), a) = 1

\* C19: when a run has completed state.json holds the offset at which the run met
\* the empty page, as the run left it at its last save or found it; every later
\* run starts there, fetches pages at that offset only, saves nothing, submits no
\* task and adds nothing to assets.jsonl, so an asset given up earlier stays
\* without its file
C19_CompletedRunLeavesCheckpointAtEnd ==
    /\ pc = "done" =>
          /\ Checkpoint = offset
          /\ Len(Page(Checkpoint)) = 0
          /\ Checkpoint > 0 => Len(Page(Checkpoint - PAGE_LIMIT)) > 0
    /\ completed # <<>> =>
          /\ Len(Page(Checkpoint)) = 0
          /\ futures = <<>>
          /\ pages_enumerated = 0
          /\ Len(assets_jsonl) = log_start
          /\ state_tmp = NoCheckpoint
          /\ AfterLoad => (start_offset = Checkpoint /\ offset = Checkpoint)

\* a run has completed after one that had completed with an asset given up: it
\* started at the empty page and left the asset without file or record
C19_Witness ==
    /\ reruns = 1
    /\ crashes = 0
    /\ completed # <<>>
    /\ pc = "rbac_get"
    /\ start_offset = Len(catalog)
    /\ \E a \in ItemIds :
          /\ Item(a).type # "folder"
          /\ files[local_path(a)] = NoFile
          /\ Records(assets_jsonl, a) = 0
    /\ \E a \in ItemIds : Records(assets_jsonl, a) = 1

\* a step of a download worker
WorkerStep ==
    \E t \in Tasks :
        \/ TaskStart(t) \/ DownloadRequest(t) \/ RequestFail(t) \/ StreamChunk(t)
        \/ StreamFail(t) \/ StreamEnd(t) \/ AppendBegin(t) \/ AppendEnd(t)

\* C20: while the error of an exhausted page fetch is leaving export_assets the
\* tasks submitted before it go on, the queued ones are started too, and the run
\* has aborted only when each of them, those unfinished at the error included,
\* has ended with its own outcome: skipped or downloaded, with the file in place
\* and recorded, or given up
C20_ExhaustedFetchWaitsForTasks ==
    /\ at_error \subseteq Tasks
    /\ at_error # {} => error = "assets_get" /\ pc \in {"unwind", "aborted"}
    /\ (pc = "unwind" /\ \E t \in Tasks : futures[t].pc # "done") => ENABLED WorkerStep
    /\ (pc = "aborted" /\ error = "assets_get") =>
          \A t \in Tasks :
              /\ futures[t].pc = "done"
              /\ futures[t].outcome \in {"skipped", "downloaded", "gaveup"}
              /\ futures[t].outcome # "gaveup" =>
                    /\ files[local_path(futures[t].asset)] = <<Payload(futures[t].asset)>>
                    /\ futures[t].appends = 1

\* the fetch of the third page failed for good while none of the three downloads
\* had ended, one of them still queued; the run has aborted after one of them was
\* downloaded and recorded and another gave up
C20_Witness ==
    /\ pc = "aborted"
    /\ error = "assets_get"
    /\ at_error = {1, 2, 3}
    /\ \E t, u \in at_error :
          /\ futures[t].outcome = "downloaded" /\ futures[t].appends = 1
          /\ futures[u].outcome = "gaveup"

-----------------------------------------------------------------------------
(* Claims about the destination file name (SpecNames) *)

\* C9: two assets with the same display name and distinct ids get different file
\* names, whatever their ids and media types
C9_FileNamesNeverCollide ==
    (/\ Len(assets) = 2
     /\ Len(filenames[1]) = 1 /\ Len(filenames[2]) = 1
     /\ assets[1].name = assets[2].name
     /\ assets[1].id # assets[2].id)
    => filenames[1] # filenames[2]

====
